---- MODULE Spec2Model ----
(***************************************************************************)
(* Model of app/api/endpoints/douban.py: the Douban endpoints that forward *)
(* a request to DoubanChain and reshape what it returns.                   *)
(*                                                                         *)
(* A Python str is modelled as a sequence of one-character strings, so     *)
(* that `in`, `split` and `join` are computed character by character.      *)
(* A character outside ASCII is written as its code point ("U+FF1A").      *)
(***************************************************************************)
EXTENDS Integers, Sequences, FiniteSets, TLC

VARIABLES
    pc,        \* "idle" | "done": position of the request being served
    endpoint,  \* name of the endpoint function that served the request
    request,   \* the request's parameters
    upstream,  \* what the DoubanChain call returned to the endpoint
    calls,     \* the DoubanChain operations the endpoint invoked, in order
    status,    \* "none" | "returned" | "raised"
    result,    \* the returned value, or the name of the exception raised
    cache,     \* Response Cache: key -> entry
    inflight,  \* Response Cache: key -> the load in flight for it
    loads,     \* every upstream load started so far, in order
    caller     \* concurrent callers of douban_movies

handlerVars == <<pc, endpoint, request, upstream, calls, status, result>>
cacheVars == <<cache, inflight, loads, caller>>
vars == <<pc, endpoint, request, upstream, calls, status, result,
          cache, inflight, loads, caller>>

(***************************************************************************)
(* Bounds of the model.                                                    *)
(***************************************************************************)
MaxCount == 2
MaxItems == 2
MaxInfos == 2
MaxParts == 4
NumCallers == 2
MaxLoads == 2

(***************************************************************************)
(* Python values.                                                          *)
(***************************************************************************)
None == <<"None">>
EmptyStr == << >>
Truthy(s) == s # None /\ s # EmptyStr

SUBJECT_ID_MARKER == <<"?", "s", "u", "b", "j", "e", "c", "t", "_", "i", "d", "=">>
MOVIE_LARGE_JPG == <<"m", "o", "v", "i", "e", "_", "l", "a", "r", "g", "e", ".", "j", "p", "g">>
TV_NORMAL_PNG == <<"t", "v", "_", "n", "o", "r", "m", "a", "l", ".", "p", "n", "g">>
TV_NORMAL_JPG == <<"t", "v", "_", "n", "o", "r", "m", "a", "l", ".", "j", "p", "g">>
TV_LARGE_JPG == <<"t", "v", "_", "l", "a", "r", "g", "e", ".", "j", "p", "g">>
FULLWIDTH_COLON == <<"U+FF1A">>
DOUBAN == "douban"

\* sub in s
Contains(sub, s) ==
    \E i \in 1..(Len(s) - Len(sub) + 1) : SubSeq(s, i, i + Len(sub) - 1) = sub

\* s.find(sub): the lowest index (1-based) where sub occurs in s, 0 if none
Find(sub, s) ==
    IF Contains(sub, s)
    THEN CHOOSE i \in 1..(Len(s) - Len(sub) + 1) :
            /\ SubSeq(s, i, i + Len(sub) - 1) = sub
            /\ \A j \in 1..(i - 1) : SubSeq(s, j, j + Len(sub) - 1) # sub
    ELSE 0

\* s.split(sep) for a non-empty sep: cut at each occurrence, left to right
RECURSIVE Split(_, _)
Split(s, sep) ==
    LET i == Find(sep, s)
    IN  IF i = 0
        THEN <<s>>
        ELSE <<SubSeq(s, 1, i - 1)>> \o Split(SubSeq(s, i + Len(sep), Len(s)), sep)

Last(seq) == seq[Len(seq)]

\* sep.join(parts)
RECURSIVE Join(_, _)
Join(sep, parts) ==
    IF Len(parts) = 0 THEN EmptyStr
    ELSE IF Len(parts) = 1 THEN parts[1]
    ELSE parts[1] \o sep \o Join(sep, Tail(parts))

\* all sequences over S of length at most n
SeqUpTo(S, n) == UNION {[1..k -> S] : k \in 0..n}

(***************************************************************************)
(* app.schemas.MediaType: an Enum, looked up by value.  The docstrings of  *)
(* douban_credits and douban_recommend name the two values of type_name;   *)
(* the else branch of both serves the members that are neither.            *)
(***************************************************************************)
MOVIE_VALUE == "U+7535 U+5F71"
TV_VALUE == "U+7535 U+89C6 U+5267"
UNKNOWN_VALUE == "U+672A U+77E5"
TypeNames == {MOVIE_VALUE, TV_VALUE, UNKNOWN_VALUE, "book", ""}

\* MediaType(type_name): the member with that value; ValueError if there is none
MediaType(type_name) ==
    IF type_name = MOVIE_VALUE THEN [err |-> FALSE, val |-> "MOVIE"]
    ELSE IF type_name = TV_VALUE THEN [err |-> FALSE, val |-> "TV"]
    ELSE IF type_name = UNKNOWN_VALUE THEN [err |-> FALSE, val |-> "UNKNOWN"]
    ELSE [err |-> TRUE, val |-> "ValueError"]

(***************************************************************************)
(* Raw payloads of the upstream, as DoubanChain hands them to an endpoint. *)
(***************************************************************************)
ImgDir == <<"p", "/">>
RealJpg == <<"1", ".", "j", "p", "g">>
QuerySuffix == <<"?", "v">>
Absent == <<"Absent">>

\* raw poster fields: absent, empty, a real poster, and the sentinels
RawPosters ==
    {Absent, EmptyStr, ImgDir \o RealJpg,
     ImgDir \o MOVIE_LARGE_JPG, ImgDir \o MOVIE_LARGE_JPG \o QuerySuffix,
     ImgDir \o TV_NORMAL_PNG, ImgDir \o TV_NORMAL_JPG, ImgDir \o TV_LARGE_JPG}

Titles == {<<"T">>}

\* a raw media payload: a dict, with or without a title
RawMedias ==
    [kind : {"dict"}, title : Titles \cup {Absent}, poster : RawPosters]

NoPayload == [kind |-> "none"]

(***************************************************************************)
(* app.core.context.MediaInfo and app.schemas.MediaInfo / MediaPerson.     *)
(***************************************************************************)
\* schemas.MediaInfo(): every field at its default
EmptyMediaInfo == [title |-> None, poster_path |-> None]

\* schemas.MediaPerson(source=source): only the source set
EmptyMediaPerson(source) ==
    [source |-> source, id |-> None, name |-> None, avatar |-> None,
     biography |-> None, also_known_as |-> << >>]

\* MediaInfo(douban_info=raw): the Payload Normalizer for a media payload
Normalize(raw) ==
    IF raw.kind # "dict" \/ raw.title = Absent
    THEN [err |-> TRUE, val |-> "UnrecognizedShapeError"]
    ELSE [err |-> FALSE,
          val |-> [title |-> raw.title,
                   poster_path |-> IF raw.poster = Absent THEN None ELSE raw.poster]]

\* MediaInfo.to_dict()
ToDict(media) == [title |-> media.title, poster_path |-> media.poster_path]

\* [MediaInfo(douban_info=x) for x in raws]: the first failure propagates
NormalizeAll(raws) ==
    IF \E i \in 1..Len(raws) : Normalize(raws[i]).err
    THEN [err |-> TRUE, val |-> "UnrecognizedShapeError"]
    ELSE [err |-> FALSE, val |-> [i \in 1..Len(raws) |-> Normalize(raws[i]).val]]

\* [media.to_dict() for media in medias]
ToDictAll(medias) == [i \in 1..Len(medias) |-> ToDict(medias[i])]

(***************************************************************************)
(* What an endpoint does with one request: the DoubanChain operations it   *)
(* invokes, and whether it returns a value or raises.                      *)
(***************************************************************************)
Returned(ops, value) == [calls |-> ops, status |-> "returned", result |-> value]
Raised(ops, exc) == [calls |-> ops, status |-> "raised", result |-> exc]

\* `not x` for what a DoubanChain operation returns: None, {} and [] are falsy
Falsy(ret) ==
    \/ ret.kind = "none"
    \/ ret.kind = "empty"
    \/ ret.kind = "list" /\ Len(ret.items) = 0

\* a list comprehension over per-item results: the first failure propagates
Collect(items) ==
    IF \E i \in 1..Len(items) : items[i].err
    THEN LET k == CHOOSE i \in 1..Len(items) :
                      items[i].err /\ \A j \in 1..(i - 1) : ~items[j].err
         IN  [err |-> TRUE, val |-> items[k].val]
    ELSE [err |-> FALSE, val |-> [i \in 1..Len(items) |-> items[i].val]]

\* MediaInfo(douban_info=raw).to_dict()
NormalizeToDict(raw) ==
    LET n == Normalize(raw)
    IN  IF n.err THEN n ELSE [err |-> FALSE, val |-> ToDict(n.val)]

(***************************************************************************)
(* DoubanChain, as the endpoints see it.                                   *)
(***************************************************************************)
LookupOutcomes == {"found", "notfound", "error"}

\* person_detail / douban_info: the payload, or None when the upstream has
\* nothing for the identifier or the upstream call failed
ChainLookup(outcome, payload) ==
    IF outcome = "found" THEN payload ELSE NoPayload

\* a listing operation: None, or one page of at most n raw items
ChainPage(S, n) ==
    {NoPayload} \cup {[kind |-> "list", items |-> s] : s \in SeqUpTo(S, n)}

(***************************************************************************)
(* GET /person/{person_id}                                                 *)
(***************************************************************************)
PersonIds == {1316132}
Labels == {<<"n", "m">>, <<"j", "b">>}
Values == {<<"J", "D">>, <<"A">>}
InfoPairs == {<<l, v>> : l \in Labels, v \in Values}
ShortInfo == <<"b", "i", "o">>

\* personinfo["extra"]: absent, or a dict whose "info" is absent or a list
RawExtras ==
    {[present |-> FALSE]}
    \cup [present : {TRUE}, hasInfo : {FALSE}, info : {<< >>},
          short_info : {Absent, ShortInfo}]
    \cup [present : {TRUE}, hasInfo : {TRUE}, info : SeqUpTo(InfoPairs, MaxInfos),
          short_info : {Absent, ShortInfo}]

RawPersons ==
    {[kind |-> "empty"]}
    \cup [kind : {"dict"}, id : PersonIds, title : Titles,
          cover : {Absent, ImgDir \o RealJpg}, extra : RawExtras]

\* x.get(key): None when the key is absent
GetOrNone(v) == IF v = Absent THEN None ELSE v

\* the join of AlsoKnownAs with an ASCII colon for the full-width one
AlsoKnownAsAsciiColon(infos) == [i \in 1..Len(infos) |-> Join(<<":">>, infos[i])]

\* ["U+FF1A".join(info) for info in infos]
AlsoKnownAs(infos) == [i \in 1..Len(infos) |-> Join(FULLWIDTH_COLON, infos[i])]

\* douban_person without its `if not personinfo` test
douban_person_unchecked(personinfo) ==
    IF Falsy(personinfo) THEN Raised(<<"person_detail">>, "AttributeError")
    ELSE Returned(<<"person_detail">>,
                  [source |-> DOUBAN, id |-> personinfo.id, name |-> personinfo.title,
                   avatar |-> GetOrNone(personinfo.cover), biography |-> None,
                   also_known_as |-> << >>])

douban_person(personinfo) ==
    IF Falsy(personinfo)
    THEN Returned(<<"person_detail">>, EmptyMediaPerson(DOUBAN))
    ELSE LET extra == personinfo.extra
             hasInfos == extra.present /\ extra.hasInfo /\ Len(extra.info) > 0
             also_known_as == IF hasInfos THEN AlsoKnownAs(extra.info) ELSE << >>
         IN  Returned(<<"person_detail">>,
                      [source |-> DOUBAN,
                       id |-> personinfo.id,
                       name |-> personinfo.title,
                       avatar |-> GetOrNone(personinfo.cover),
                       biography |-> IF extra.present
                                     THEN GetOrNone(extra.short_info) ELSE None,
                       also_known_as |-> also_known_as])

(***************************************************************************)
(* GET /{doubanid}                                                         *)
(***************************************************************************)
DoubanIds == {"27503705"}

douban_info(doubaninfo) ==
    IF ~Falsy(doubaninfo)
    THEN LET d == NormalizeToDict(doubaninfo)
         IN  IF d.err THEN Raised(<<"douban_info">>, d.val)
             ELSE Returned(<<"douban_info">>, d.val)
    ELSE Returned(<<"douban_info">>, EmptyMediaInfo)

(***************************************************************************)
(* The media listings.                                                     *)
(***************************************************************************)
Pages == {1, 2}
Sorts == {"R"}
Tags == {""}

\* [MediaInfo(douban_info=x).to_dict() for x in raws]
NormalizeToDictAll(raws) == Collect([i \in 1..Len(raws) |-> NormalizeToDict(raws[i])])

\* the poster test of douban_movies
MoviePosterOk(media) ==
    /\ Truthy(media.poster_path)
    /\ ~Contains(MOVIE_LARGE_JPG, media.poster_path)
    /\ ~Contains(TV_NORMAL_PNG, media.poster_path)

\* the poster test of douban_tvs
TvPosterOk(media) ==
    /\ Truthy(media.poster_path)
    /\ ~Contains(MOVIE_LARGE_JPG, media.poster_path)
    /\ ~Contains(TV_NORMAL_JPG, media.poster_path)
    /\ ~Contains(TV_LARGE_JPG, media.poster_path)

\* [media.to_dict() for media in medias if <movie poster test>]
RECURSIVE MovieFiltered(_)
MovieFiltered(medias) ==
    IF Len(medias) = 0 THEN << >>
    ELSE (IF MoviePosterOk(Head(medias)) THEN <<ToDict(Head(medias))>> ELSE << >>)
         \o MovieFiltered(Tail(medias))

\* [media.to_dict() for media in medias if <tv poster test>]
RECURSIVE TvFiltered(_)
TvFiltered(medias) ==
    IF Len(medias) = 0 THEN << >>
    ELSE (IF TvPosterOk(Head(medias)) THEN <<ToDict(Head(medias))>> ELSE << >>)
         \o TvFiltered(Tail(medias))

\* movie_showing returning the page in reverse order
movie_showing_reversed(movies) ==
    IF Falsy(movies) THEN Returned(<<"movie_showing">>, << >>)
    ELSE LET medias == NormalizeAll(movies.items)
         IN  IF medias.err THEN Raised(<<"movie_showing">>, medias.val)
             ELSE Returned(<<"movie_showing">>,
                           [i \in 1..Len(medias.val) |->
                               ToDict(medias.val[Len(medias.val) + 1 - i])])

\* GET /showing
movie_showing(movies) ==
    IF Falsy(movies) THEN Returned(<<"movie_showing">>, << >>)
    ELSE LET medias == NormalizeAll(movies.items)
         IN  IF medias.err THEN Raised(<<"movie_showing">>, medias.val)
             ELSE Returned(<<"movie_showing">>, ToDictAll(medias.val))

\* the movie listing without the test for movie_large.jpg
RECURSIVE MovieFilteredOneSentinel(_)
MovieFilteredOneSentinel(medias) ==
    IF Len(medias) = 0 THEN << >>
    ELSE (IF Truthy(Head(medias).poster_path)
             /\ ~Contains(TV_NORMAL_PNG, Head(medias).poster_path)
          THEN <<ToDict(Head(medias))>> ELSE << >>)
         \o MovieFilteredOneSentinel(Tail(medias))

douban_movies_one_sentinel(movies) ==
    IF Falsy(movies) THEN Returned(<<"douban_discover">>, << >>)
    ELSE LET medias == NormalizeAll(movies.items)
         IN  IF medias.err THEN Raised(<<"douban_discover">>, medias.val)
             ELSE Returned(<<"douban_discover">>, MovieFilteredOneSentinel(medias.val))

\* GET /movies
douban_movies(movies) ==
    IF Falsy(movies) THEN Returned(<<"douban_discover">>, << >>)
    ELSE LET medias == NormalizeAll(movies.items)
         IN  IF medias.err THEN Raised(<<"douban_discover">>, medias.val)
             ELSE Returned(<<"douban_discover">>, MovieFiltered(medias.val))

\* GET /tvs
douban_tvs(tvs) ==
    IF Falsy(tvs) THEN Returned(<<"douban_discover">>, << >>)
    ELSE LET medias == NormalizeAll(tvs.items)
         IN  IF medias.err THEN Raised(<<"douban_discover">>, medias.val)
             ELSE Returned(<<"douban_discover">>, TvFiltered(medias.val))

\* GET /movie_top250, /tv_weekly_chinese, /tv_weekly_global, /tv_animation,
\* /movie_hot, /tv_hot: the same body, over a different DoubanChain operation
TopList(op, ret) ==
    LET items == IF Falsy(ret) THEN << >> ELSE ret.items
        dicts == NormalizeToDictAll(items)
    IN  IF dicts.err THEN Raised(<<op>>, dicts.val)
        ELSE Returned(<<op>>, dicts.val)

movie_top250(movies) == TopList("movie_top250", movies)
tv_weekly_chinese(tvs) == TopList("tv_weekly_chinese", tvs)
tv_weekly_global(tvs) == TopList("tv_weekly_global", tvs)
tv_animation(tvs) == TopList("tv_animation", tvs)
movie_hot(movies) == TopList("movie_hot", movies)
tv_hot(tvs) == TopList("tv_hot", tvs)

(***************************************************************************)
(* GET /person/credits/{person_id}                                         *)
(***************************************************************************)
\* a work: a dict with or without "subject", or an entry that is no dict
RawWorks ==
    {[kind |-> "none"], [kind |-> "dict", hasSubject |-> FALSE]}
    \cup [kind : {"dict"}, hasSubject : {TRUE}, subject : RawMedias]

\* MediaInfo(douban_info=work.get("subject")).to_dict()
WorkToDict(work) ==
    IF work.kind # "dict" THEN [err |-> TRUE, val |-> "AttributeError"]
    ELSE NormalizeToDict(IF work.hasSubject THEN work.subject ELSE NoPayload)

douban_person_credits(works) ==
    IF Falsy(works) THEN Returned(<<"person_credits">>, << >>)
    ELSE LET dicts == Collect([i \in 1..Len(works.items) |-> WorkToDict(works.items[i])])
         IN  IF dicts.err THEN Raised(<<"person_credits">>, dicts.val)
             ELSE Returned(<<"person_credits">>, dicts.val)

(***************************************************************************)
(* GET /credits/{doubanid}/{type_name}                                     *)
(***************************************************************************)
CelebrityPrefix == <<"c", "/", "1", "3">>
SubjectDigits == <<"2", "7", "5">>
OtherDigits == <<"9">>
PersonNames == {<<"N">>}

CreditUris ==
    {CelebrityPrefix \o SUBJECT_ID_MARKER \o SubjectDigits,
     CelebrityPrefix \o SUBJECT_ID_MARKER \o OtherDigits \o SUBJECT_ID_MARKER \o SubjectDigits,
     CelebrityPrefix,
     SubjectDigits}

\* a credit entry: "uri" absent, null or a str; it may carry a "source" key
RawCredits ==
    [uri : CreditUris \cup {Absent, None}, name : PersonNames, hasSource : BOOLEAN]

\* uri.split('?subject_id=', 1)[-1]: the text after the first marker
ExtractIdFirstMarker(uri) ==
    LET i == Find(SUBJECT_ID_MARKER, uri)
    IN  IF i = 0 THEN uri ELSE SubSeq(uri, i + Len(SUBJECT_ID_MARKER), Len(uri))

\* uri.split('?subject_id=')[-1]
ExtractId(uri) == Last(Split(uri, SUBJECT_ID_MARKER))

\* doubaninfo['id'] = doubaninfo.get('uri', '').split('?subject_id=')[-1]
UpdateId(doubaninfo) ==
    IF doubaninfo.uri = None THEN [err |-> TRUE, val |-> "AttributeError"]
    ELSE [err |-> FALSE,
          val |-> [uri |-> doubaninfo.uri, name |-> doubaninfo.name,
                   hasSource |-> doubaninfo.hasSource,
                   id |-> ExtractId(IF doubaninfo.uri = Absent THEN EmptyStr
                                    ELSE doubaninfo.uri)]]

\* schemas.MediaPerson(source='douban', **doubaninfo)
NewMediaPerson(source, doubaninfo) ==
    IF doubaninfo.hasSource THEN [err |-> TRUE, val |-> "TypeError"]
    ELSE [err |-> FALSE,
          val |-> [source |-> source, id |-> doubaninfo.id, name |-> doubaninfo.name,
                   avatar |-> None, biography |-> None, also_known_as |-> << >>]]

\* the body of douban_credits once doubaninfos is fetched by operation op
CreditsOf(op, doubaninfos) ==
    IF Falsy(doubaninfos) THEN Returned(<<op>>, << >>)
    ELSE LET updated == Collect([i \in 1..Len(doubaninfos.items) |->
                                    UpdateId(doubaninfos.items[i])])
         IN  IF updated.err THEN Raised(<<op>>, updated.val)
             ELSE LET persons == Collect([i \in 1..Len(updated.val) |->
                                            NewMediaPerson(DOUBAN, updated.val[i])])
                  IN  IF persons.err THEN Raised(<<op>>, persons.val)
                      ELSE Returned(<<op>>, persons.val)

\* douban_credits with the two branches exchanged
douban_credits_swapped(type_name, doubaninfos) ==
    LET mediatype == MediaType(type_name)
    IN  IF mediatype.err THEN Raised(<< >>, mediatype.val)
        ELSE IF mediatype.val = "MOVIE" THEN CreditsOf("tv_credits", doubaninfos)
        ELSE IF mediatype.val = "TV" THEN CreditsOf("movie_credits", doubaninfos)
        ELSE Returned(<< >>, << >>)

douban_credits(type_name, doubaninfos) ==
    LET mediatype == MediaType(type_name)
    IN  IF mediatype.err THEN Raised(<< >>, mediatype.val)
        ELSE IF mediatype.val = "MOVIE" THEN CreditsOf("movie_credits", doubaninfos)
        ELSE IF mediatype.val = "TV" THEN CreditsOf("tv_credits", doubaninfos)
        ELSE Returned(<< >>, << >>)

(***************************************************************************)
(* GET /recommend/{doubanid}/{type_name}                                   *)
(***************************************************************************)
RecommendOf(op, doubaninfos) ==
    IF Falsy(doubaninfos) THEN Returned(<<op>>, << >>)
    ELSE LET dicts == NormalizeToDictAll(doubaninfos.items)
         IN  IF dicts.err THEN Raised(<<op>>, dicts.val)
             ELSE Returned(<<op>>, dicts.val)

douban_recommend(type_name, doubaninfos) ==
    LET mediatype == MediaType(type_name)
    IN  IF mediatype.err THEN Raised(<< >>, mediatype.val)
        ELSE IF mediatype.val = "MOVIE" THEN RecommendOf("movie_recommend", doubaninfos)
        ELSE IF mediatype.val = "TV" THEN RecommendOf("tv_recommend", doubaninfos)
        ELSE Returned(<< >>, << >>)

(***************************************************************************)
(* The Response Cache in front of the upstream, as douban_discover uses    *)
(* it: getOrLoad(key, loader).                                             *)
(***************************************************************************)
DEFAULT_COUNT == 30
Callers == 1..NumCallers
CacheKeys == [mtype : {"MOVIE"}, sort : Sorts, tags : Tags, page : Pages,
              count : {DEFAULT_COUNT}]
NoEntry == [load |-> 0]
NoCaller == [pc |-> "idle"]

\* the pages the upstream serves for a discover request
PosterMedia == [kind |-> "dict", title |-> <<"T">>, poster |-> ImgDir \o RealJpg]
SentinelMedia == [kind |-> "dict", title |-> <<"T">>, poster |-> ImgDir \o MOVIE_LARGE_JPG]
DiscoverPages ==
    {[kind |-> "list", items |-> <<PosterMedia>>],
     [kind |-> "list", items |-> <<SentinelMedia, PosterMedia>>]}

CacheInit ==
    /\ cache = [k \in CacheKeys |-> NoEntry]
    /\ inflight = [k \in CacheKeys |-> 0]
    /\ loads = << >>
    /\ caller = [c \in Callers |-> NoCaller]

(***************************************************************************)
(* One request served by one endpoint.                                     *)
(***************************************************************************)
HandlerInit ==
    /\ pc = "idle"
    /\ endpoint = "none"
    /\ request = << >>
    /\ upstream = NoPayload
    /\ calls = << >>
    /\ status = "none"
    /\ result = << >>

Init == HandlerInit /\ CacheInit

\* the endpoint `name` serves request `req`; `ret` is what DoubanChain returns
Serve(name, req, ret, out) ==
    /\ pc' = "done"
    /\ endpoint' = name
    /\ request' = req
    /\ upstream' = IF out.calls = << >> THEN NoPayload ELSE ret
    /\ calls' = out.calls
    /\ status' = out.status
    /\ result' = out.result
    /\ UNCHANGED cacheVars

DoubanPerson ==
    /\ pc = "idle"
    /\ \E person_id \in PersonIds, outcome \in LookupOutcomes, payload \in RawPersons :
           LET personinfo == ChainLookup(outcome, payload)
           IN  Serve("douban_person", [person_id |-> person_id, outcome |-> outcome],
                     personinfo, douban_person(personinfo))

DoubanInfo ==
    /\ pc = "idle"
    /\ \E doubanid \in DoubanIds, outcome \in LookupOutcomes,
          payload \in RawMedias \cup {[kind |-> "empty"]} :
           LET doubaninfo == ChainLookup(outcome, payload)
           IN  Serve("douban_info", [doubanid |-> doubanid, outcome |-> outcome],
                     doubaninfo, douban_info(doubaninfo))

DoubanPersonCredits ==
    /\ pc = "idle"
    /\ \E person_id \in PersonIds, page \in Pages, works \in ChainPage(RawWorks, MaxItems) :
           Serve("douban_person_credits", [person_id |-> person_id, page |-> page],
                 works, douban_person_credits(works))

MovieShowing ==
    /\ pc = "idle"
    /\ \E page \in Pages, count \in 1..MaxCount :
           \E movies \in ChainPage(RawMedias, count) :
               Serve("movie_showing", [page |-> page, count |-> count],
                     movies, movie_showing(movies))

DoubanMovies ==
    /\ pc = "idle"
    /\ \E sort \in Sorts, tags \in Tags, page \in Pages, count \in 1..MaxCount :
           \E movies \in ChainPage(RawMedias, count) :
               Serve("douban_movies",
                     [sort |-> sort, tags |-> tags, page |-> page, count |-> count],
                     movies, douban_movies(movies))

DoubanTvs ==
    /\ pc = "idle"
    /\ \E sort \in Sorts, tags \in Tags, page \in Pages, count \in 1..MaxCount :
           \E tvs \in ChainPage(RawMedias, count) :
               Serve("douban_tvs",
                     [sort |-> sort, tags |-> tags, page |-> page, count |-> count],
                     tvs, douban_tvs(tvs))

MovieTop250 ==
    /\ pc = "idle"
    /\ \E page \in Pages, count \in 1..MaxCount :
           \E movies \in ChainPage(RawMedias, count) :
               Serve("movie_top250", [page |-> page, count |-> count],
                     movies, movie_top250(movies))

TvWeeklyChinese ==
    /\ pc = "idle"
    /\ \E page \in Pages, count \in 1..MaxCount :
           \E tvs \in ChainPage(RawMedias, count) :
               Serve("tv_weekly_chinese", [page |-> page, count |-> count],
                     tvs, tv_weekly_chinese(tvs))

TvWeeklyGlobal ==
    /\ pc = "idle"
    /\ \E page \in Pages, count \in 1..MaxCount :
           \E tvs \in ChainPage(RawMedias, count) :
               Serve("tv_weekly_global", [page |-> page, count |-> count],
                     tvs, tv_weekly_global(tvs))

TvAnimation ==
    /\ pc = "idle"
    /\ \E page \in Pages, count \in 1..MaxCount :
           \E tvs \in ChainPage(RawMedias, count) :
               Serve("tv_animation", [page |-> page, count |-> count],
                     tvs, tv_animation(tvs))

MovieHot ==
    /\ pc = "idle"
    /\ \E page \in Pages, count \in 1..MaxCount :
           \E movies \in ChainPage(RawMedias, count) :
               Serve("movie_hot", [page |-> page, count |-> count],
                     movies, movie_hot(movies))

TvHot ==
    /\ pc = "idle"
    /\ \E page \in Pages, count \in 1..MaxCount :
           \E tvs \in ChainPage(RawMedias, count) :
               Serve("tv_hot", [page |-> page, count |-> count],
                     tvs, tv_hot(tvs))

DoubanCredits ==
    /\ pc = "idle"
    /\ \E doubanid \in DoubanIds, type_name \in TypeNames, page \in Pages,
          doubaninfos \in ChainPage(RawCredits, MaxItems) :
           Serve("douban_credits",
                 [doubanid |-> doubanid, type_name |-> type_name, page |-> page],
                 doubaninfos, douban_credits(type_name, doubaninfos))

DoubanRecommend ==
    /\ pc = "idle"
    /\ \E doubanid \in DoubanIds, type_name \in TypeNames,
          doubaninfos \in ChainPage(RawMedias, MaxItems) :
           Serve("douban_recommend", [doubanid |-> doubanid, type_name |-> type_name],
                 doubaninfos, douban_recommend(type_name, doubaninfos))

\* the response is sent; the next request may be served
Respond ==
    /\ pc = "done"
    /\ pc' = "idle"
    /\ endpoint' = "none"
    /\ request' = << >>
    /\ upstream' = NoPayload
    /\ calls' = << >>
    /\ status' = "none"
    /\ result' = << >>
    /\ UNCHANGED cacheVars

Next ==
    \/ DoubanPerson
    \/ DoubanInfo
    \/ DoubanPersonCredits
    \/ MovieShowing
    \/ DoubanMovies
    \/ DoubanTvs
    \/ MovieTop250
    \/ TvWeeklyChinese
    \/ TvWeeklyGlobal
    \/ TvAnimation
    \/ MovieHot
    \/ TvHot
    \/ DoubanCredits
    \/ DoubanRecommend
    \/ Respond

Spec == Init /\ [][Next]_vars

(***************************************************************************)
(* Properties of the endpoints.                                            *)
(***************************************************************************)
Served(name) == pc = "done" /\ endpoint = name

\* s.endswith(suffix)
EndsWith(s, suffix) ==
    /\ Len(s) >= Len(suffix)
    /\ SubSeq(s, Len(s) - Len(suffix) + 1, Len(s)) = suffix

\* r is u with some elements removed, the rest in u's order
RECURSIVE IsSubsequence(_, _)
IsSubsequence(r, u) ==
    IF Len(r) = 0 THEN TRUE
    ELSE IF Len(u) = 0 THEN FALSE
    ELSE IF Head(r) = Head(u) THEN IsSubsequence(Tail(r), Tail(u))
    ELSE IsSubsequence(r, Tail(u))

\* the canonical dict of a raw media payload that has its title
MediaDictOf(raw) ==
    [title |-> raw.title,
     poster_path |-> IF raw.poster = Absent THEN None ELSE raw.poster]

MovieSentinels == {MOVIE_LARGE_JPG, TV_NORMAL_PNG}
TvSentinels == {MOVIE_LARGE_JPG, TV_NORMAL_JPG, TV_LARGE_JPG}

\* a poster path that is present and holds none of the sentinels
NoPlaceholder(path, sentinels) ==
    /\ path # Absent /\ path # None
    /\ \A sentinel \in sentinels : ~Contains(sentinel, path)

\* a poster path that is present, non-empty and holds none of the sentinels
RealPoster(path, sentinels) ==
    /\ path # Absent /\ path # None /\ path # EmptyStr
    /\ \A sentinel \in sentinels : ~Contains(sentinel, path)

\* C1: in the list douban_movies returns, no item of the upstream page whose
\* poster path ends with movie_large.jpg appears, and every item of the page
\* with a real poster path (non-empty, holding no movie sentinel) appears.
C1_MoviePlaceholderFiltered ==
    (Served("douban_movies") /\ status = "returned" /\ upstream.kind = "list") =>
        \A i \in 1..Len(upstream.items) :
            LET raw == upstream.items[i]
            IN  /\ (raw.poster # Absent /\ EndsWith(raw.poster, MOVIE_LARGE_JPG)) =>
                       \A j \in 1..Len(result) : result[j] # MediaDictOf(raw)
                /\ RealPoster(raw.poster, MovieSentinels) =>
                       \E j \in 1..Len(result) : result[j] = MediaDictOf(raw)

\* a page of two otherwise-identical items, one with the sentinel poster and
\* one with a real poster, of which douban_movies returned exactly the latter
C1_Witness ==
    /\ Served("douban_movies") /\ status = "returned" /\ upstream.kind = "list"
    /\ Len(upstream.items) = 2
    /\ upstream.items[1].title = upstream.items[2].title
    /\ EndsWith(upstream.items[1].poster, MOVIE_LARGE_JPG)
    /\ RealPoster(upstream.items[2].poster, MovieSentinels)
    /\ result = <<MediaDictOf(upstream.items[2])>>

\* C3: when the lookup finds nothing or fails, douban_person returns a
\* MediaPerson with only source = 'douban' set and douban_info returns a
\* MediaInfo with every field at its default; neither raises.
C3_EmptyOnMissing ==
    /\ (Served("douban_person") /\ (request.outcome # "found" \/ upstream.kind # "dict")) =>
           /\ status = "returned"
           /\ result = [source |-> "douban", id |-> None, name |-> None,
                        avatar |-> None, biography |-> None, also_known_as |-> << >>]
    /\ (Served("douban_info") /\ (request.outcome # "found" \/ upstream.kind # "dict")) =>
           /\ status = "returned"
           /\ result = [title |-> None, poster_path |-> None]

\* a person lookup whose upstream call failed, answered with the empty person
C3_Witness ==
    /\ Served("douban_person") /\ request.outcome = "error"
    /\ status = "returned" /\ result.source = "douban" /\ result.id = None

\* the "extra info" list of a raw person payload; empty when it is absent
ExtraInfoOf(personinfo) ==
    IF personinfo.extra.present /\ personinfo.extra.hasInfo
    THEN personinfo.extra.info ELSE << >>

\* C4: also_known_as has the length of the raw extra-info list and its i-th
\* element is label_i, a full-width colon, value_i; it is empty when the list
\* is absent or empty.
C4_AlsoKnownAs ==
    (Served("douban_person") /\ upstream.kind = "dict") =>
        LET infos == ExtraInfoOf(upstream)
        IN  /\ status = "returned"
            /\ Len(result.also_known_as) = Len(infos)
            /\ \A i \in 1..Len(infos) :
                   result.also_known_as[i] = infos[i][1] \o <<"U+FF1A">> \o infos[i][2]

\* a person with two different extra-info pairs, both joined, in source order
C4_Witness ==
    /\ Served("douban_person") /\ upstream.kind = "dict"
    /\ Len(ExtraInfoOf(upstream)) = 2
    /\ ExtraInfoOf(upstream)[1] # ExtraInfoOf(upstream)[2]
    /\ Len(result.also_known_as) = 2
    /\ result.also_known_as[1] # result.also_known_as[2]

CountedListings ==
    {"movie_showing", "douban_movies", "douban_tvs", "movie_top250",
     "tv_weekly_chinese", "tv_weekly_global", "tv_animation", "movie_hot", "tv_hot"}

\* the last segment of uri after the marker, found from the right: the text
\* after the last place the marker occurs, or uri itself if it occurs nowhere
AfterLastMarker(uri) ==
    LET n == Len(SUBJECT_ID_MARKER)
        at == {i \in 1..(Len(uri) - n + 1) : SubSeq(uri, i, i + n - 1) = SUBJECT_ID_MARKER}
    IN  IF at = {} THEN uri
        ELSE LET last == CHOOSE i \in at : \A j \in at : j <= i
             IN  SubSeq(uri, last + n, Len(uri))

\* C6: a paged listing call that returns, returns at most count items, and
\* its list is the upstream page with items removed but never reordered,
\* duplicated or added.
C6_PageOrderAndSize ==
    /\ (pc = "done" /\ endpoint \in CountedListings /\ status = "returned") =>
           /\ request.page >= 1 /\ request.count >= 1
           /\ Len(result) <= request.count
           /\ IsSubsequence(result,
                            IF upstream.kind = "list"
                            THEN [i \in 1..Len(upstream.items) |->
                                     MediaDictOf(upstream.items[i])]
                            ELSE << >>)
    /\ (Served("douban_person_credits") /\ status = "returned") =>
           IsSubsequence(result,
                         IF upstream.kind = "list"
                         THEN [i \in 1..Len(upstream.items) |->
                                  MediaDictOf(upstream.items[i].subject)]
                         ELSE << >>)
    /\ (Served("douban_credits") /\ status = "returned") =>
           IsSubsequence([j \in 1..Len(result) |-> <<result[j].id, result[j].name>>],
                         IF upstream.kind = "list"
                         THEN [i \in 1..Len(upstream.items) |->
                                  <<AfterLastMarker(IF upstream.items[i].uri = Absent
                                                    THEN EmptyStr
                                                    ELSE upstream.items[i].uri),
                                    upstream.items[i].name>>]
                         ELSE << >>)

\* a full page of two different items, returned whole and in upstream order
C6_Witness ==
    /\ Served("movie_showing") /\ status = "returned" /\ upstream.kind = "list"
    /\ request.count = 2 /\ Len(upstream.items) = 2
    /\ upstream.items[1] # upstream.items[2]
    /\ result = <<MediaDictOf(upstream.items[1]), MediaDictOf(upstream.items[2])>>

TypedEndpoints == {"douban_credits", "douban_recommend"}
MovieOps == {"movie_credits", "movie_recommend"}
TvOps == {"tv_credits", "tv_recommend"}

\* C10 as stated: movie invokes only the movie operation, TV only the TV
\* operation, and any other type_name returns an empty list without invoking
\* an upstream operation and without raising; at most one operation per request.
C10_SilentEmptyFallback ==
    (pc = "done" /\ endpoint \in TypedEndpoints) =>
        /\ Len(calls) <= 1
        /\ request.type_name = MOVIE_VALUE => \A i \in 1..Len(calls) : calls[i] \in MovieOps
        /\ request.type_name = TV_VALUE => \A i \in 1..Len(calls) : calls[i] \in TvOps
        /\ request.type_name \notin {MOVIE_VALUE, TV_VALUE} =>
               calls = << >> /\ status = "returned" /\ result = << >>

\* C10, amended: movie invokes exactly the movie operation, TV exactly the TV
\* operation; a type_name that is another MediaType value returns an empty list
\* and a type_name that is no MediaType value raises ValueError, both without
\* invoking an upstream operation; at most one operation per request.
C10_TypeDispatch ==
    (pc = "done" /\ endpoint \in TypedEndpoints) =>
        /\ Len(calls) <= 1
        /\ request.type_name = MOVIE_VALUE =>
               Len(calls) = 1 /\ calls[1] \in MovieOps
        /\ request.type_name = TV_VALUE =>
               Len(calls) = 1 /\ calls[1] \in TvOps
        /\ request.type_name = UNKNOWN_VALUE =>
               calls = << >> /\ status = "returned" /\ result = << >>
        /\ request.type_name \notin {MOVIE_VALUE, TV_VALUE, UNKNOWN_VALUE} =>
               calls = << >> /\ status = "raised" /\ result = "ValueError"

\* a credits request whose type_name is no MediaType value: it raised, and no
\* upstream operation was invoked
C10_Witness ==
    /\ Served("douban_credits") /\ request.type_name = "book"
    /\ status = "raised" /\ calls = << >>

\* a raw media payload the normalizer accepts
WellFormedMedia(raw) == raw.kind = "dict" /\ raw.title # Absent

\* a work whose subject the normalizer accepts
WellFormedWork(work) ==
    work.kind = "dict" /\ work.hasSubject /\ WellFormedMedia(work.subject)

\* a credit entry that fits MediaPerson
WellFormedCredit(entry) == entry.uri # None /\ ~entry.hasSource

\* the elements of seq at the indices in keep, in order
RECURSIVE Keep(_, _, _)
Keep(seq, keep, i) ==
    IF i > Len(seq) THEN << >>
    ELSE (IF i \in keep THEN <<seq[i]>> ELSE << >>) \o Keep(seq, keep, i + 1)

\* C5: a listing call never fails on a malformed entry: it returns, and what
\* it returns for person credits, top lists and credits is the page without
\* its malformed entries.
C5_MalformedItemDropped ==
    /\ (pc = "done" /\ upstream.kind = "list"
            /\ endpoint \in CountedListings \cup TypedEndpoints \cup {"douban_person_credits"}) =>
           status = "returned"
    /\ (Served("douban_person_credits") /\ upstream.kind = "list") =>
           LET ok == {i \in 1..Len(upstream.items) : WellFormedWork(upstream.items[i])}
           IN  result = [j \in 1..Cardinality(ok) |->
                            MediaDictOf(Keep(upstream.items, ok, 1)[j].subject)]
    /\ (Served("movie_top250") /\ upstream.kind = "list") =>
           LET ok == {i \in 1..Len(upstream.items) : WellFormedMedia(upstream.items[i])}
           IN  result = [j \in 1..Cardinality(ok) |->
                            MediaDictOf(Keep(upstream.items, ok, 1)[j])]
    /\ (Served("douban_credits") /\ upstream.kind = "list") =>
           LET ok == {i \in 1..Len(upstream.items) : WellFormedCredit(upstream.items[i])}
           IN  Len(result) = Cardinality(ok)

\* C7: every MediaPerson the credits call returns has the id the ID extractor
\* derives from the entry's uri, and for no entry that carries a uri is the
\* returned id the raw uri string.
C7_IdNeverRawUri ==
    (Served("douban_credits") /\ status = "returned" /\ upstream.kind = "list") =>
        \A i \in 1..Len(result) :
            LET uri == upstream.items[i].uri
            IN  uri # Absent =>
                    /\ result[i].id = AfterLastMarker(uri)
                    /\ result[i].id # uri

\* C8: no item douban_movies, douban_tvs or movie_showing returns has an absent
\* poster_path or one holding a sentinel of the listing's media type, while
\* douban_info returns the item with its poster_path as it is.
C8_PlaceholderExcludedFromListings ==
    /\ (pc = "done" /\ endpoint \in {"douban_movies", "movie_showing"}
            /\ status = "returned") =>
           \A j \in 1..Len(result) : NoPlaceholder(result[j].poster_path, MovieSentinels)
    /\ (Served("douban_tvs") /\ status = "returned") =>
           \A j \in 1..Len(result) : NoPlaceholder(result[j].poster_path, TvSentinels)
    /\ (Served("douban_info") /\ upstream.kind = "dict" /\ status = "returned") =>
           result = MediaDictOf(upstream)

\* The part of C8 that the endpoints do keep: the two discover listings return
\* no placeholder poster, and douban_info returns the poster as it is.
DiscoverPlaceholderExcluded ==
    /\ (Served("douban_movies") /\ status = "returned") =>
           \A j \in 1..Len(result) : NoPlaceholder(result[j].poster_path, MovieSentinels)
    /\ (Served("douban_tvs") /\ status = "returned") =>
           \A j \in 1..Len(result) : NoPlaceholder(result[j].poster_path, TvSentinels)
    /\ (Served("douban_info") /\ upstream.kind = "dict" /\ status = "returned") =>
           result = MediaDictOf(upstream)

\* The part of C7 that douban_credits does keep: the id is the text after the
\* last marker of the uri.
CreditIdExtracted ==
    (Served("douban_credits") /\ status = "returned" /\ upstream.kind = "list") =>
        /\ Len(result) = Len(upstream.items)
        /\ \A i \in 1..Len(result) :
               result[i].id = AfterLastMarker(IF upstream.items[i].uri = Absent
                                              THEN EmptyStr ELSE upstream.items[i].uri)

(***************************************************************************)
(* The ID extraction of douban_credits over composed uri strings.          *)
(***************************************************************************)
CELEBRITY_URI ==
    <<"d", "o", "u", "b", "a", "n", ":", "/", "/", "d", "o", "u", "b", "a",
    "n", ".", "c", "o", "m", "/", "c", "e", "l", "e", "b", "r", "i", "t", "y",
    "/", "1", "3", "1", "6", "1", "3", "2">>
SUBJECT_ID ==
    <<"2", "7", "5", "0", "3", "7", "0", "5">>
NO_MARKER_HERE ==
    <<"n", "o", "-", "m", "a", "r", "k", "e", "r", "-", "h", "e", "r", "e">>
MARKER_NO_EQUALS ==
    <<"?", "s", "u", "b", "j", "e", "c", "t", "_", "i", "d">>

UriPieces ==
    {SUBJECT_ID_MARKER, CELEBRITY_URI, SUBJECT_ID, NO_MARKER_HERE,
     MARKER_NO_EQUALS, <<"=">>}

\* the concatenation of the strings of parts
RECURSIVE Concat(_)
Concat(parts) ==
    IF Len(parts) = 0 THEN EmptyStr ELSE Head(parts) \o Concat(Tail(parts))

UriStrings == {Concat(parts) : parts \in SeqUpTo(UriPieces, MaxParts)}

\* douban_credits over a one-entry page whose uri is any composed string
DoubanCreditsUri ==
    /\ pc = "idle"
    /\ \E doubanid \in DoubanIds, type_name \in {MOVIE_VALUE, TV_VALUE},
          page \in Pages, uri \in UriStrings, name \in PersonNames :
           LET doubaninfos ==
                   [kind |-> "list",
                    items |-> <<[uri |-> uri, name |-> name, hasSource |-> FALSE]>>]
           IN  Serve("douban_credits",
                     [doubanid |-> doubanid, type_name |-> type_name, page |-> page],
                     doubaninfos, douban_credits(type_name, doubaninfos))

ExtractNext == DoubanCreditsUri \/ Respond

ExtractSpec == Init /\ [][ExtractNext]_vars

\* C2: for every uri string the id douban_credits stores is the text after the
\* last occurrence of '?subject_id=', and the uri itself when the marker does
\* not occur; the extraction never raises.
C2_ExtractId ==
    (Served("douban_credits") /\ upstream.kind = "list") =>
        LET uri == upstream.items[1].uri
        IN  /\ status = "returned"
            /\ Len(result) = 1
            /\ result[1].id = AfterLastMarker(uri)
            /\ ~Contains(SUBJECT_ID_MARKER, uri) => result[1].id = uri
            /\ uri = CELEBRITY_URI \o SUBJECT_ID_MARKER \o SUBJECT_ID =>
                   result[1].id = SUBJECT_ID
            /\ uri = NO_MARKER_HERE => result[1].id = NO_MARKER_HERE

\* a uri in which the marker occurs twice: the id is the text after the second
C2_Witness ==
    /\ Served("douban_credits") /\ status = "returned"
    /\ upstream.items[1].uri =
           SUBJECT_ID_MARKER \o NO_MARKER_HERE \o SUBJECT_ID_MARKER \o SUBJECT_ID
    /\ result[1].id = SUBJECT_ID

(***************************************************************************)
(* Concurrent requests to GET /movies: each calls douban_discover once,    *)
(* which resolves its key through the Response Cache.                      *)
(***************************************************************************)
\* a load: its key, its outcome, the value the upstream gave, and every
\* distinct answer a call got from it
NewLoad(k) ==
    [key |-> k, outcome |-> "pending", value |-> NoPayload, answers |-> {}]

\* what a call's douban_movies returns once douban_discover gave `ret`
Answer(got, ret) ==
    [got |-> got, status |-> douban_movies(ret).status,
     result |-> douban_movies(ret).result]

\* getOrLoad finds an entry for the key: the call is answered from the cache
CacheHit(c, k) ==
    /\ caller[c].pc = "idle"
    /\ cache[k].load # 0
    /\ loads' = [loads EXCEPT ![cache[k].load].answers =
                                  @ \cup {Answer("ok", cache[k].value)}]
    /\ UNCHANGED <<cache, inflight, caller>>
    /\ UNCHANGED handlerVars

\* a call that finds a load in flight and invokes the loader all the same
SubscribeDuplicateLoad(c, k) ==
    /\ caller[c].pc = "idle"
    /\ cache[k].load = 0
    /\ inflight[k] # 0
    /\ Len(loads) < MaxLoads
    /\ loads' = Append(loads, NewLoad(k))
    /\ inflight' = [inflight EXCEPT ![k] = Len(loads) + 1]
    /\ caller' = [caller EXCEPT ![c] =
                     [pc |-> "waiting", key |-> k, load |-> Len(loads) + 1,
                      how |-> "loaded"]]
    /\ UNCHANGED cache
    /\ UNCHANGED handlerVars

\* getOrLoad finds a load in flight for the key: the call waits for it
Subscribe(c, k) ==
    /\ caller[c].pc = "idle"
    /\ cache[k].load = 0
    /\ inflight[k] # 0
    /\ caller' = [caller EXCEPT ![c] =
                     [pc |-> "waiting", key |-> k, load |-> inflight[k],
                      how |-> "subscribed"]]
    /\ UNCHANGED <<cache, inflight, loads>>
    /\ UNCHANGED handlerVars

\* getOrLoad finds neither: the call invokes the loader, the upstream call
StartLoad(c, k) ==
    /\ caller[c].pc = "idle"
    /\ cache[k].load = 0
    /\ inflight[k] = 0
    /\ Len(loads) < MaxLoads
    /\ loads' = Append(loads, NewLoad(k))
    /\ inflight' = [inflight EXCEPT ![k] = Len(loads) + 1]
    /\ caller' = [caller EXCEPT ![c] =
                     [pc |-> "waiting", key |-> k, load |-> Len(loads) + 1,
                      how |-> "loaded"]]
    /\ UNCHANGED cache
    /\ UNCHANGED handlerVars

\* the upstream answers the load: the entry is stored, the load is over
LoadSucceeds(id, value) ==
    /\ loads[id].outcome = "pending"
    /\ loads' = [loads EXCEPT ![id].outcome = "ok", ![id].value = value]
    /\ cache' = [cache EXCEPT ![loads[id].key] = [load |-> id, value |-> value]]
    /\ inflight' = [inflight EXCEPT ![loads[id].key] = 0]
    /\ UNCHANGED caller
    /\ UNCHANGED handlerVars

\* the upstream call fails: nothing is stored for the key, the load is over
LoadFails(id) ==
    /\ loads[id].outcome = "pending"
    /\ loads' = [loads EXCEPT ![id].outcome = "failed"]
    /\ inflight' = [inflight EXCEPT ![loads[id].key] = 0]
    /\ UNCHANGED <<cache, caller>>
    /\ UNCHANGED handlerVars

\* a waiting call receives the outcome of the load it waited for, and returns
Receive(c) ==
    /\ caller[c].pc = "waiting"
    /\ loads[caller[c].load].outcome # "pending"
    /\ loads' = [loads EXCEPT ![caller[c].load].answers =
                                  @ \cup {Answer(loads[caller[c].load].outcome,
                                                 loads[caller[c].load].value)}]
    /\ caller' = [caller EXCEPT ![c] = NoCaller]
    /\ UNCHANGED <<cache, inflight>>
    /\ UNCHANGED handlerVars

\* the entry's time-to-live runs out
Expire(k) ==
    /\ cache[k].load # 0
    /\ cache' = [cache EXCEPT ![k] = NoEntry]
    /\ UNCHANGED <<inflight, loads, caller>>
    /\ UNCHANGED handlerVars

CacheHitStep == \E c \in Callers, k \in CacheKeys : CacheHit(c, k)
SubscribeStep == \E c \in Callers, k \in CacheKeys : Subscribe(c, k)
StartLoadStep == \E c \in Callers, k \in CacheKeys : StartLoad(c, k)
LoadSucceedsStep ==
    \E id \in 1..MaxLoads, value \in DiscoverPages :
        id <= Len(loads) /\ LoadSucceeds(id, value)
LoadFailsStep == \E id \in 1..MaxLoads : id <= Len(loads) /\ LoadFails(id)
ReceiveStep == \E c \in Callers : Receive(c)
ExpireStep == \E k \in CacheKeys : Expire(k)

CacheNext ==
    \/ CacheHitStep
    \/ SubscribeStep
    \/ StartLoadStep
    \/ LoadSucceedsStep
    \/ LoadFailsStep
    \/ ReceiveStep
    \/ ExpireStep

CacheSpec == Init /\ [][CacheNext]_vars

\* the calls waiting for load id
Waiting(id) == {c \in Callers : caller[c].pc = "waiting" /\ caller[c].load = id}

\* C9: calls with the same key that overlap a load share that one load (one
\* upstream invocation, started by one of them), all of them receive the same
\* result or the same failure, and a failure leaves no entry behind, so that
\* the next call with the key invokes the loader again.
C9_CacheCoherence ==
    /\ \A i, j \in 1..Len(loads) :
           (i # j /\ loads[i].key = loads[j].key) =>
               ~(loads[i].outcome = "pending" /\ loads[j].outcome = "pending")
    /\ \A c, d \in Callers :
           (/\ caller[c].pc = "waiting" /\ caller[d].pc = "waiting"
            /\ caller[c].key = caller[d].key
            /\ loads[caller[c].load].outcome = "pending"
            /\ loads[caller[d].load].outcome = "pending") =>
               caller[c].load = caller[d].load
    /\ \A id \in 1..Len(loads) :
           /\ Cardinality({c \in Waiting(id) : caller[c].how = "loaded"}) <= 1
           /\ \A c \in Waiting(id) : caller[c].key = loads[id].key
           /\ Cardinality(loads[id].answers) <= 1
           /\ \A a \in loads[id].answers : a.got = loads[id].outcome
    /\ \A k \in CacheKeys :
           /\ cache[k].load # 0 =>
                  /\ loads[cache[k].load].outcome = "ok"
                  /\ loads[cache[k].load].key = k
                  /\ loads[cache[k].load].value = cache[k].value
           /\ \A id \in 1..Len(loads) :
                  (/\ loads[id].key = k /\ loads[id].outcome = "failed"
                   /\ \A later \in (id + 1)..Len(loads) : loads[later].key # k) =>
                      cache[k].load = 0 /\ inflight[k] = 0

\* a load that failed and gave its failure to a call, then a second load of
\* the same key, started by the next call, that gave its page to the call that
\* started it while a second call that subscribed to it is still to receive it
C9_Witness ==
    /\ Len(loads) = 2
    /\ loads[1].key = loads[2].key
    /\ loads[1].outcome = "failed" /\ loads[1].answers # {}
    /\ loads[2].outcome = "ok"
    /\ \E a \in loads[2].answers : Len(a.result) = 1
    /\ \E c \in Callers :
           /\ caller[c].pc = "waiting" /\ caller[c].load = 2
           /\ caller[c].how = "subscribed"

====
